---- MODULE Spec2Model ----
(***************************************************************************)
(* Model of the LLM evaluation scripts:                                    *)
(*   - Interface.py     safe_score (the score normalizer) and the          *)
(*                      Streamlit evaluation block                         *)
(*   - OpenAI-Eval.py   the PDF RAG evaluation script, sections 1 to 7     *)
(*   - localLlm-eval.py the local Ollama evaluation script                 *)
(*                                                                         *)
(* Floats are fixed-point integers in hundredths: 1.0 is 100, 0.5 is 50.   *)
(* A Python value that may be None is a record with a `none` flag.         *)
(* Text is a sequence of one-character strings.                            *)
(***************************************************************************)
EXTENDS Integers, Sequences, FiniteSets, TLC

VARIABLES
    script,      \* which program is running
    pc,          \* position in the running program
    score,       \* safe_score argument: [none, val]
    feedback,    \* safe_score argument: [none, text]
    outcome,     \* what safe_score(score, feedback) did: [raised, value]
    outcome2,    \* what safe_score(outcome.value, None) did
    environ,     \* the process environment, the files and the user's input
    api_key,     \* OpenAI-Eval.py: api_key
    key_reads,   \* OpenAI-Eval.py: how often the environment variable was read
    documents,   \* OpenAI-Eval.py: documents, [none, count]
    index,       \* OpenAI-Eval.py: index, [built, docs]
    response,    \* OpenAI-Eval.py: response, [none, nodes]
    faithfulness_evaluator,   \* TRUE once constructed (None before)
    relevancy_evaluator,      \* answer_relevancy_evaluator in OpenAI-Eval.py
    correctness_evaluator,
    faithfulness_result,      \* EvaluationResult or None
    relevancy_result,         \* answer_relevancy_result in OpenAI-Eval.py
    correctness_result,
    faithfulness_score,       \* Interface.py: the scores shown
    relevancy_score,
    correctness_score,
    exit_status, \* the process exit status; 0 while running and at a normal end
    steps,       \* the calls into the library made so far
    printed,     \* what was printed or displayed so far
    raised       \* the places that raised so far

normVars == <<score, feedback, outcome, outcome2>>

loadVars == <<api_key, key_reads, documents, index, response>>

evaluators ==
    <<faithfulness_evaluator, relevancy_evaluator, correctness_evaluator>>

results == <<faithfulness_result, relevancy_result, correctness_result>>

uiScores == <<faithfulness_score, relevancy_score, correctness_score>>

progVars ==
    <<environ, loadVars, evaluators, results, uiScores, exit_status, steps,
      printed, raised>>

vars == <<script, pc, normVars, progVars>>

----------------------------------------------------------------------------
(* Bounds of the model *)

\* longest feedback text, in characters
MaxLen == 6

\* most documents the reader returns
MaxDocs == 2

----------------------------------------------------------------------------
(* Python values *)

NoneScore == [none |-> TRUE, val |-> 0]
SomeScore(v) == [none |-> FALSE, val |-> v]

NoneText == [none |-> TRUE, text |-> <<>>]
SomeText(t) == [none |-> FALSE, text |-> t]

\* the characters a feedback text is made of; "x" is any other character
Chars == {"0", "1", "2", "/", "x"}

RECURSIVE TextsOfLen(_)
TextsOfLen(n) ==
    IF n = 0 THEN {<<>>}
    ELSE {Append(t, c) : t \in TextsOfLen(n - 1), c \in Chars}

Texts == UNION {TextsOfLen(n) : n \in 0..MaxLen}

Feedbacks == {NoneText} \cup {SomeText(t) : t \in Texts}

\* absent, negative, zero, inside (0, 1], and above 1.0
ScoreValues == {-50, 0, 50, 100, 150}

Scores == {NoneScore} \cup {SomeScore(v) : v \in ScoreValues}

\* Python's `sub in text` on two strings
Contains(sub, text) ==
    \E i \in 1..(Len(text) - Len(sub) + 1) :
        SubSeq(text, i, i + Len(sub) - 1) = sub

\* Python's truth value of an optional string: None and "" are falsy
Truthy(fb) == ~fb.none /\ fb.text # <<>>

Return(v) == [raised |-> FALSE, value |-> v]
Raise == [raised |-> TRUE, value |-> 0]
NotCalled == [raised |-> FALSE, value |-> -1]

----------------------------------------------------------------------------
(* Interface.py: safe_score *)

Ratio22 == <<"2", "/", "2">>
Ratio12 == <<"1", "/", "2">>
Ratio02 == <<"0", "/", "2">>

Score22 == 100
Score12 == 50
Score02 == 0
ScoreDefault == 0

\* lines 16-21; `in` on None raises TypeError, a text without a ratio falls
\* out of the if/elif chain to the default of line 22
FeedbackScore(fb) ==
    IF fb.none THEN Raise
    ELSE IF Contains(Ratio22, fb.text) THEN Return(Score22)
    ELSE IF Contains(Ratio12, fb.text) THEN Return(Score12)
    ELSE IF Contains(Ratio02, fb.text) THEN Return(Score02)
    ELSE Return(ScoreDefault)

\* mutants of line 13: `score >= 0`, `if score:`, `score >= 1`
ScorePositive_nonNegative(s) == ~s.none /\ s.val >= 0

ScorePositive_truthy(s) == ~s.none /\ s.val # 0

ScorePositive_atLeastOne(s) == ~s.none /\ s.val >= 100

\* line 13
ScorePositive(s) == ~s.none /\ s.val > 0

\* mutant: the result is clamped to 1.0
safe_score_clamped(s, fb) ==
    IF ScorePositive(s) THEN Return(IF s.val > 100 THEN 100 ELSE s.val)
    ELSE IF Truthy(fb) THEN FeedbackScore(fb)
    ELSE Return(ScoreDefault)

\* mutant: "1/2" is looked for before "2/2"
safe_score_halfFirst(s, fb) ==
    IF ScorePositive(s) THEN Return(s.val)
    ELSE IF Truthy(fb) THEN
        IF Contains(Ratio12, fb.text) THEN Return(Score12)
        ELSE IF Contains(Ratio22, fb.text) THEN Return(Score22)
        ELSE Return(ScoreDefault)
    ELSE Return(ScoreDefault)

\* mutant: the `if feedback:` guard of line 15 is missing
safe_score_unguarded(s, fb) ==
    IF ScorePositive(s) THEN Return(s.val)
    ELSE FeedbackScore(fb)

safe_score(s, fb) ==
    IF ScorePositive(s) THEN Return(s.val)
    ELSE IF Truthy(fb) THEN FeedbackScore(fb)
    ELSE Return(ScoreDefault)

----------------------------------------------------------------------------
(* What the scripts hold *)

NoDocuments == [none |-> TRUE, count |-> 0]
NoIndex == [built |-> FALSE, docs |-> 0]
NoResponse == [none |-> TRUE, nodes |-> "none"]
NoResult ==
    [none |-> TRUE, passing |-> FALSE, score |-> NoneScore,
     feedback |-> NoneText]

\* a Response object: without source nodes, with source nodes that carry a
\* score, or with a source node whose score is None
Responses ==
    {[none |-> FALSE, nodes |-> n] : n \in {"empty", "scored", "unscored"}}

\* the scores and feedback texts an evaluator reports
ReportedScores == {NoneScore, SomeScore(0), SomeScore(100)}

ReportedFeedbacks == {NoneText, SomeText(Ratio22), SomeText(<<"x">>)}

EvalResults ==
    {[none |-> FALSE, passing |-> p, score |-> s, feedback |-> f] :
        p \in BOOLEAN, s \in ReportedScores, f \in ReportedFeedbacks}

\* the values of OPENAI_API_KEY: unset, empty, set
ApiKeys == {NoneText, SomeText(<<>>), SomeText(<<"x">>)}

\* the state of every script variable before the script's first line
ProgInit ==
    /\ api_key = NoneText
    /\ key_reads = 0
    /\ documents = NoDocuments
    /\ index = NoIndex
    /\ response = NoResponse
    /\ faithfulness_evaluator = FALSE
    /\ relevancy_evaluator = FALSE
    /\ correctness_evaluator = FALSE
    /\ faithfulness_result = NoResult
    /\ relevancy_result = NoResult
    /\ correctness_result = NoResult
    /\ faithfulness_score = NoneScore
    /\ relevancy_score = NoneScore
    /\ correctness_score = NoneScore
    /\ exit_status = 0
    /\ steps = {}
    /\ printed = {}
    /\ raised = {}

\* sys.exit(1)
Exit(status) ==
    /\ pc' = "exited"
    /\ exit_status' = status

\* control goes on at the next section
Goto(next) ==
    /\ pc' = next
    /\ exit_status' = exit_status

----------------------------------------------------------------------------
(* OpenAI-Eval.py *)

\* mutant: `if api_key is None`
KeyMissing_noneOnly(k) == k.none

\* line 20: `not api_key`
KeyMissing(k) == k.none \/ k.text = <<>>

\* section 1, lines 17-30
OA_Setup ==
    /\ script = "openai"
    /\ pc = "setup"
    /\ api_key' = environ.api_key
    /\ key_reads' = key_reads + 1
    /\ IF KeyMissing(api_key')
       THEN /\ printed' = printed \cup {"key_error"}
            /\ steps' = steps
            /\ Exit(1)
       ELSE /\ printed' = printed \cup {"key_found"}
            /\ steps' = steps \cup {"makedirs"}
            /\ Goto("load")
    /\ UNCHANGED <<script, normVars, environ, documents, index, response,
                   evaluators, results, uiScores, raised>>

\* mutant: the empty load is not checked
DocumentsEmpty_unchecked(d) == FALSE

\* line 38: `not documents`
DocumentsEmpty(d) == d.count = 0

\* section 2, lines 33-46; the reader raises when the file is missing, and
\* may raise on a file it cannot parse
OA_LoadData ==
    /\ script = "openai"
    /\ pc = "load"
    /\ steps' = steps \cup {"load_data"}
    /\ \/ /\ raised' = raised \cup {"load"}
          /\ printed' = printed \cup {"load_error"}
          /\ documents' = documents
          /\ Exit(1)
       \/ /\ environ.pdf_file
          /\ \E n \in 0..MaxDocs :
                /\ documents' = [none |-> FALSE, count |-> n]
                /\ IF DocumentsEmpty(documents')
                   THEN /\ printed' = printed \cup {"no_documents"}
                        /\ Exit(1)
                   ELSE /\ printed' = printed \cup {"loaded"}
                        /\ Goto("index")
          /\ raised' = raised
    /\ UNCHANGED <<script, normVars, environ, api_key, key_reads, index,
                   response, evaluators, results, uiScores>>

\* section 3, lines 49-57
OA_CreateIndex ==
    /\ script = "openai"
    /\ pc = "index"
    /\ steps' = steps \cup {"build_index"}
    /\ \/ /\ raised' = raised \cup {"index"}
          /\ printed' = printed \cup {"index_error"}
          /\ index' = index
          /\ Exit(1)
       \/ /\ index' = [built |-> TRUE, docs |-> documents.count]
          /\ printed' = printed \cup {"index_created"}
          /\ raised' = raised
          /\ Goto("query")
    /\ UNCHANGED <<script, normVars, environ, api_key, key_reads, documents,
                   response, evaluators, results, uiScores>>

\* mutant: the handler never exits
QueryFailureFatal_never(resp) == FALSE

\* line 84: `if response is None`
QueryFailureFatal(resp) == resp.none

\* lines 81-85: the handler of the query step's try block
OA_QueryHandler(resp) ==
    IF QueryFailureFatal(resp) THEN Exit(1) ELSE Goto("config")

\* section 4, lines 60-69: the query engine is created and the query run;
\* either call may raise, and then response is still None
OA_Query ==
    /\ script = "openai"
    /\ pc = "query"
    /\ steps' = steps \cup {"query"}
    /\ \/ /\ raised' = raised \cup {"query_engine"}
          /\ printed' = printed \cup {"query_error"}
          /\ response' = NoResponse
          /\ OA_QueryHandler(response')
       \/ /\ raised' = raised \cup {"query"}
          /\ printed' = printed \cup {"query_error"}
          /\ response' = NoResponse
          /\ OA_QueryHandler(response')
       \/ /\ response' \in Responses \cup {NoResponse}
          /\ UNCHANGED <<raised, printed>>
          /\ Goto("print_response")
    /\ UNCHANGED <<script, normVars, environ, api_key, key_reads, documents,
                   index, evaluators, results, uiScores>>

\* section 4, lines 71-85: the response and the source nodes are printed,
\* still inside the try block; formatting a source node's score of None
\* with .4f raises TypeError
OA_PrintResponse ==
    /\ script = "openai"
    /\ pc = "print_response"
    /\ IF ~response.none /\ response.nodes = "unscored"
       THEN /\ raised' = raised \cup {"print_response"}
            /\ printed' = printed \cup {"response", "query_error"}
            /\ OA_QueryHandler(response)
       ELSE /\ raised' = raised
            /\ printed' = printed \cup {"response"}
            /\ Goto("config")
    /\ UNCHANGED <<script, normVars, environ, loadVars, evaluators, results,
                   uiScores, steps>>

\* section 5, lines 88-105: a constructor that raises leaves the evaluators
\* not yet assigned at None
OA_ConfigureEvaluators ==
    /\ script = "openai"
    /\ pc = "config"
    /\ \/ /\ faithfulness_evaluator' = FALSE
          /\ relevancy_evaluator' = FALSE
          /\ raised' = raised \cup {"config"}
          /\ printed' = printed \cup {"init_error"}
       \/ /\ faithfulness_evaluator' = TRUE
          /\ relevancy_evaluator' = FALSE
          /\ raised' = raised \cup {"config"}
          /\ printed' = printed \cup {"init_error"}
       \/ /\ faithfulness_evaluator' = TRUE
          /\ relevancy_evaluator' = TRUE
          /\ UNCHANGED <<raised, printed>>
    /\ Goto("eval_faith")
    /\ UNCHANGED <<script, normVars, environ, loadVars, correctness_evaluator,
                   results, uiScores, steps>>

\* mutant: an evaluator's failure ends the script
Recover_exit(next) == Exit(1)

\* lines 120-122 and 135-137: the handler prints, sets the result to None
\* and falls through to the next section
Recover(next) == Goto(next)

\* mutant: the guard tests the evaluator alone
ShouldEvaluate_evaluatorOnly(resp, evaluator) == evaluator

\* lines 113 and 127: `if response and <evaluator>`
ShouldEvaluate(resp, evaluator) == ~resp.none /\ evaluator

\* section 6, lines 110-124
OA_EvalFaithfulness ==
    /\ script = "openai"
    /\ pc = "eval_faith"
    /\ IF ShouldEvaluate(response, faithfulness_evaluator)
       THEN /\ steps' = steps \cup {"evaluate_faithfulness"}
            /\ \/ /\ faithfulness_result' \in EvalResults
                  /\ printed' = printed \cup {"faithfulness_complete"}
                  /\ raised' = raised
                  /\ Goto("eval_rel")
               \/ /\ faithfulness_result' = NoResult
                  /\ printed' = printed \cup {"faithfulness_error"}
                  /\ raised' = raised \cup {"faithfulness"}
                  /\ Recover("eval_rel")
       ELSE /\ printed' = printed \cup {"faithfulness_skipped"}
            /\ Goto("eval_rel")
            /\ UNCHANGED <<steps, raised, faithfulness_result>>
    /\ UNCHANGED <<script, normVars, environ, loadVars, evaluators,
                   relevancy_result, correctness_result, uiScores>>

\* section 6, lines 127-139
OA_EvalRelevancy ==
    /\ script = "openai"
    /\ pc = "eval_rel"
    /\ IF ShouldEvaluate(response, relevancy_evaluator)
       THEN /\ steps' = steps \cup {"evaluate_relevancy"}
            /\ \/ /\ relevancy_result' \in EvalResults
                  /\ printed' = printed \cup {"relevancy_complete"}
                  /\ raised' = raised
                  /\ Goto("display")
               \/ /\ relevancy_result' = NoResult
                  /\ printed' = printed \cup {"relevancy_error"}
                  /\ raised' = raised \cup {"relevancy"}
                  /\ Recover("display")
       ELSE /\ printed' = printed \cup {"relevancy_skipped"}
            /\ Goto("display")
            /\ UNCHANGED <<steps, raised, relevancy_result>>
    /\ UNCHANGED <<script, normVars, environ, loadVars, evaluators,
                   faithfulness_result, correctness_result, uiScores>>

\* lines 147-154 and 157-165: what is shown for one evaluation
OA_Shown(result, evaluator, shown, failed, missing) ==
    IF ~result.none THEN {shown}
    ELSE IF evaluator THEN {failed}
    ELSE {missing}

\* section 7, lines 143-167
OA_Display ==
    /\ script = "openai"
    /\ pc = "display"
    /\ steps' = steps \cup {"display"}
    /\ printed' = printed \cup {"results_header", "script_finished"}
            \cup OA_Shown(faithfulness_result, faithfulness_evaluator,
                          "faithfulness_result", "faithfulness_failed",
                          "faithfulness_not_initialized")
            \cup OA_Shown(relevancy_result, relevancy_evaluator,
                          "relevancy_result", "relevancy_failed",
                          "relevancy_not_initialized")
    /\ Goto("done")
    /\ UNCHANGED <<script, normVars, environ, loadVars, evaluators, results,
                   uiScores, raised>>

OA_Next ==
    \/ OA_Setup
    \/ OA_LoadData
    \/ OA_CreateIndex
    \/ OA_Query
    \/ OA_PrintResponse
    \/ OA_ConfigureEvaluators
    \/ OA_EvalFaithfulness
    \/ OA_EvalRelevancy
    \/ OA_Display

----------------------------------------------------------------------------
(* localLlm-eval.py *)

\* line 50, `SimpleDirectoryReader(input_files=)`, is not Python: the
\* interpreter rejects the file when it compiles it, prints the SyntaxError
\* and ends with status 1 before the first line runs, whatever the files
LOCAL_Compile ==
    /\ script = "local"
    /\ pc = "compile"
    /\ printed' = printed \cup {"syntax_error"}
    /\ Exit(1)
    /\ UNCHANGED <<script, normVars, environ, loadVars, evaluators, results,
                   uiScores, steps, raised>>

----------------------------------------------------------------------------
(* Interface.py: one run of the Streamlit script *)

\* the raw correctness scores: absent, 0, normalized, and the 1 to 5 scale
CorrectnessScores ==
    {NoneScore} \cup
    {SomeScore(v) : v \in {0, 50, 100, 200, 300, 400, 500}}

CorrectnessResults ==
    {[none |-> FALSE, passing |-> TRUE, score |-> s, feedback |-> f] :
        s \in CorrectnessScores, f \in {NoneText, SomeText(<<"x">>)}}

\* lines 87-88: the handler of the evaluation block's one try
UI_Failed ==
    /\ printed' = printed \cup {"evaluation_failed"}
    /\ Goto("ui_end")

\* lines 32-35: the page is drawn; the rest runs when the button was pressed
UI_Start ==
    /\ script = "interface"
    /\ pc = "ui_start"
    /\ IF environ.button THEN Goto("ui_complete") ELSE Goto("ui_end")
    /\ UNCHANGED <<script, normVars, environ, loadVars, evaluators, results,
                   uiScores, steps, printed, raised>>

\* lines 36-45: the completion is outside every try; when it raises the run
\* stops there
UI_Complete ==
    /\ script = "interface"
    /\ pc = "ui_complete"
    /\ steps' = steps \cup {"complete"}
    /\ \/ /\ raised' = raised \cup {"complete"}
          /\ printed' = printed
          /\ Goto("ui_crashed")
       \/ /\ raised' = raised
          /\ printed' = printed \cup {"llm_response"}
          /\ Goto("ui_init")
    /\ UNCHANGED <<script, normVars, environ, loadVars, evaluators, results,
                   uiScores>>

\* lines 48-52
UI_InitEvaluators ==
    /\ script = "interface"
    /\ pc = "ui_init"
    /\ \/ /\ raised' = raised \cup {"config"}
          /\ UNCHANGED evaluators
          /\ UI_Failed
       \/ /\ faithfulness_evaluator' = TRUE
          /\ relevancy_evaluator' = TRUE
          /\ correctness_evaluator' = TRUE
          /\ UNCHANGED <<raised, printed>>
          /\ Goto("ui_faith")
    /\ UNCHANGED <<script, normVars, environ, loadVars, results, uiScores,
                   steps>>

\* lines 55-58
UI_EvalFaithfulness ==
    /\ script = "interface"
    /\ pc = "ui_faith"
    /\ steps' = steps \cup {"evaluate_faithfulness"}
    /\ \/ /\ raised' = raised \cup {"faithfulness"}
          /\ UNCHANGED faithfulness_result
          /\ UI_Failed
       \/ /\ faithfulness_result' \in EvalResults
          /\ UNCHANGED <<raised, printed>>
          /\ Goto("ui_rel")
    /\ UNCHANGED <<script, normVars, environ, loadVars, evaluators,
                   relevancy_result, correctness_result, uiScores>>

\* lines 59-61
UI_EvalRelevancy ==
    /\ script = "interface"
    /\ pc = "ui_rel"
    /\ steps' = steps \cup {"evaluate_relevancy"}
    /\ \/ /\ raised' = raised \cup {"relevancy"}
          /\ UNCHANGED relevancy_result
          /\ UI_Failed
       \/ /\ relevancy_result' \in EvalResults
          /\ UNCHANGED <<raised, printed>>
          /\ Goto("ui_corr")
    /\ UNCHANGED <<script, normVars, environ, loadVars, evaluators,
                   faithfulness_result, correctness_result, uiScores>>

\* lines 63-65
UI_EvalCorrectness ==
    /\ script = "interface"
    /\ pc = "ui_corr"
    /\ steps' = steps \cup {"evaluate_correctness"}
    /\ \/ /\ raised' = raised \cup {"correctness"}
          /\ UNCHANGED correctness_result
          /\ UI_Failed
       \/ /\ correctness_result' \in CorrectnessResults
          /\ UNCHANGED <<raised, printed>>
          /\ Goto("ui_scores")
    /\ UNCHANGED <<script, normVars, environ, loadVars, evaluators,
                   faithfulness_result, relevancy_result, uiScores>>

\* line 68: `correctness_result.score or 0`
RawCorrectness(s) == IF s.none \/ s.val = 0 THEN 0 ELSE s.val

\* line 69: `raw / 4 if raw > 1 else raw`
NormalizeCorrectness(raw) == IF raw > 100 THEN raw \div 4 ELSE raw

\* lines 67-85: the three scores are computed and shown
UI_ScoreAndDisplay ==
    /\ script = "interface"
    /\ pc = "ui_scores"
    /\ LET f == safe_score(faithfulness_result.score,
                           faithfulness_result.feedback)
           r == safe_score(relevancy_result.score, relevancy_result.feedback)
       IN  IF f.raised \/ r.raised
           THEN /\ raised' = raised \cup {"safe_score"}
                /\ UNCHANGED <<uiScores, steps>>
                /\ UI_Failed
           ELSE /\ correctness_score' = SomeScore(
                      NormalizeCorrectness(
                          RawCorrectness(correctness_result.score)))
                /\ faithfulness_score' = SomeScore(f.value)
                /\ relevancy_score' = SomeScore(r.value)
                /\ steps' = steps \cup {"display"}
                /\ printed' = printed \cup
                      {"faithfulness_score", "relevancy_score",
                       "correctness_score"}
                /\ raised' = raised
                /\ Goto("ui_end")
    /\ UNCHANGED <<script, normVars, environ, loadVars, evaluators, results>>

UI_Next ==
    \/ UI_Start
    \/ UI_Complete
    \/ UI_InitEvaluators
    \/ UI_EvalFaithfulness
    \/ UI_EvalRelevancy
    \/ UI_EvalCorrectness
    \/ UI_ScoreAndDisplay

----------------------------------------------------------------------------
(* The three scripts, each run once in every environment *)

Environs ==
    {[api_key |-> k, pdf_file |-> f, data_dir |-> d, button |-> b] :
        k \in ApiKeys, f \in BOOLEAN, d \in BOOLEAN, b \in BOOLEAN}

StartOf(s) ==
    CASE s = "openai" -> "setup"
      [] s = "local" -> "compile"
      [] s = "interface" -> "ui_start"

\* what a script reads of its environment; the rest is left at its default
Reads(s, e) ==
    CASE s = "openai" -> ~e.data_dir /\ ~e.button
      [] s = "local" -> e.api_key = NoneText /\ ~e.button
      [] s = "interface" -> e.api_key = NoneText /\ ~e.pdf_file /\ ~e.data_dir

Init ==
    /\ script \in {"openai", "local", "interface"}
    /\ pc = StartOf(script)
    /\ environ \in Environs
    /\ Reads(script, environ)
    /\ score = NoneScore
    /\ feedback = NoneText
    /\ outcome = NotCalled
    /\ outcome2 = NotCalled
    /\ ProgInit

Next == OA_Next \/ LOCAL_Compile \/ UI_Next

Spec == Init /\ [][Next]_vars

----------------------------------------------------------------------------
(* Properties of the scripts, over Spec *)

Evaluations == {"evaluate_faithfulness", "evaluate_relevancy",
                "evaluate_correctness"}

\* neither an evaluator was called nor the results displayed
NoEvaluation == steps \cap (Evaluations \cup {"display"}) = {}

ExitedWithError == pc = "exited" /\ exit_status = 1

\* C7: in OpenAI-Eval.py the API key is read from the environment once, at
\* the start, and when it is unset or empty the script prints an error and
\* exits with status 1 before any later step: no document is loaded, no
\* index built, no query run and nothing evaluated.
C7_MissingKeyFatal ==
    script = "openai" =>
        /\ key_reads <= 1
        /\ (pc # "setup") => (key_reads = 1 /\ api_key = environ.api_key)
        /\ (environ.api_key \in {NoneText, SomeText(<<>>)}) =>
              /\ steps = {}
              /\ ~index.built
              /\ documents.none
              /\ (pc # "setup") =>
                    (ExitedWithError /\ "key_error" \in printed)

\* the key was set to the empty string and the script has exited
C7_Witness ==
    /\ script = "openai"
    /\ environ.api_key = SomeText(<<>>)
    /\ key_reads = 1
    /\ ExitedWithError

\* the query step's try block raised: creating the engine, running the
\* query, or printing the response and the source nodes
QueryStepRaised ==
    raised \cap {"query_engine", "query", "print_response"} # {}

\* C8 as stated: whenever index construction or the query step raises, the
\* script prints the error and exits with non-zero status, and neither an
\* evaluation nor the result display runs afterwards.
C8_AsStated ==
    (script = "openai" /\ ("index" \in raised \/ QueryStepRaised)) =>
        (ExitedWithError /\ NoEvaluation)

\* C8, amended: a failure of index construction is fatal, and a failure of
\* the query step is fatal when it leaves no response object (the engine's
\* creation or the query itself raised): the error is printed, the script
\* exits with status 1, and no evaluation or display runs.  When the query
\* step raises after the response was obtained (while it prints the response
\* and the source nodes) the error is printed and the script goes on to the
\* evaluation and the result display without exiting.
C8_FatalWithoutResponse ==
    script = "openai" =>
        /\ ("index" \in raised) =>
              (ExitedWithError /\ NoEvaluation /\ "index_error" \in printed)
        /\ (QueryStepRaised /\ response.none) =>
              (ExitedWithError /\ NoEvaluation /\ "query_error" \in printed)
        /\ (QueryStepRaised /\ ~response.none) =>
              /\ pc # "exited"
              /\ exit_status = 0
              /\ "query_error" \in printed
              /\ (pc = "done") =>
                    /\ "display" \in steps
                    /\ faithfulness_evaluator =>
                          "evaluate_faithfulness" \in steps
                    /\ relevancy_evaluator => "evaluate_relevancy" \in steps

\* the query raised, no response was obtained, the script has exited
C8_Witness ==
    /\ script = "openai"
    /\ "query" \in raised
    /\ response.none
    /\ "query_error" \in printed
    /\ ExitedWithError

ScoreLines == {"faithfulness_score", "relevancy_score", "correctness_score"}

EvaluatorRaised ==
    raised \cap {"faithfulness", "relevancy", "correctness"} # {}

AtEnd == pc \in {"done", "ui_end", "exited", "ui_crashed"}

\* C9 as stated: when one evaluator's call raises, every other evaluation
\* still runs, the results of the evaluations that succeeded are reported,
\* and the script goes on to its end instead of exiting; for the
\* faithfulness, the relevancy and the correctness evaluator alike.
C9_AsStated ==
    (EvaluatorRaised /\ AtEnd) =>
        /\ pc # "exited"
        /\ exit_status = 0
        /\ faithfulness_evaluator => "evaluate_faithfulness" \in steps
        /\ relevancy_evaluator => "evaluate_relevancy" \in steps
        /\ correctness_evaluator => "evaluate_correctness" \in steps
        /\ ~faithfulness_result.none =>
              printed \cap {"faithfulness_result", "faithfulness_score"} # {}
        /\ ~relevancy_result.none =>
              printed \cap {"relevancy_result", "relevancy_score"} # {}
        /\ ~correctness_result.none => "correctness_score" \in printed

\* C9, amended: in OpenAI-Eval.py an evaluator's failure is recovered
\* locally: when the faithfulness or the answer-relevancy evaluator's call
\* raises, only that result becomes None, the other evaluation still runs
\* whenever its evaluator was initialised, a result that was obtained is
\* still reported, and the script reaches its end with status 0.  In
\* Interface.py the three calls share one try block: when any of them raises
\* the error is displayed, the evaluations after it do not run and no score
\* is displayed, those of the evaluations that succeeded included; the run
\* ends without exiting.
C9_RecoveredPerScript ==
    /\ (script = "openai" /\ EvaluatorRaised) =>
          /\ pc # "exited"
          /\ exit_status = 0
          /\ ("faithfulness" \in raised) =>
                (faithfulness_result.none /\ "faithfulness_error" \in printed)
          /\ ("relevancy" \in raised) =>
                (relevancy_result.none /\ "relevancy_error" \in printed)
          /\ (pc \in {"display", "done"}) =>
                /\ faithfulness_evaluator => "evaluate_faithfulness" \in steps
                /\ relevancy_evaluator => "evaluate_relevancy" \in steps
          /\ (pc = "done") =>
                /\ "script_finished" \in printed
                /\ ("faithfulness_result" \in printed)
                      <=> ~faithfulness_result.none
                /\ ("relevancy_result" \in printed) <=> ~relevancy_result.none
                /\ ("faithfulness" \in raised) =>
                      "faithfulness_failed" \in printed
                /\ ("relevancy" \in raised) => "relevancy_failed" \in printed
    /\ (script = "interface" /\ EvaluatorRaised) =>
          /\ pc = "ui_end"
          /\ exit_status = 0
          /\ "evaluation_failed" \in printed
          /\ printed \cap ScoreLines = {}
          /\ "display" \notin steps
          /\ ("faithfulness" \in raised) =>
                steps \cap {"evaluate_relevancy", "evaluate_correctness"} = {}
          /\ ("relevancy" \in raised) => "evaluate_correctness" \notin steps

\* in OpenAI-Eval.py the faithfulness evaluation raised, the relevancy
\* evaluation ran after it and its result was reported at the end
C9_Witness ==
    /\ script = "openai"
    /\ "faithfulness" \in raised
    /\ pc = "done"
    /\ ~relevancy_result.none
    /\ "relevancy_result" \in printed

\* C10: a data-loading failure is fatal: when the document reader raises,
\* or returns no documents (OpenAI-Eval.py), or the data directory or the
\* PDF file does not exist (localLlm-eval.py), the script prints an error
\* and exits with non-zero status, and no index is built from a failed or
\* empty load.
C10_LoadFailureFatal ==
    /\ (script = "openai") =>
          /\ ("load" \in raised \/ (~documents.none /\ documents.count = 0)) =>
                /\ ExitedWithError
                /\ printed \cap {"load_error", "no_documents"} # {}
          /\ (~environ.pdf_file /\ pc \notin {"setup", "load"}) =>
                ExitedWithError
    /\ (script = "local" /\ pc # "compile"
            /\ (~environ.data_dir \/ ~environ.pdf_file)) =>
          (ExitedWithError /\ printed # {})
    /\ (index.built \/ "build_index" \in steps) =>
          /\ "load" \notin raised
          /\ ~documents.none
          /\ documents.count > 0
    /\ index.built => index.docs = documents.count

\* the reader returned no documents and OpenAI-Eval.py has exited
C10_Witness ==
    /\ script = "openai"
    /\ documents = [none |-> FALSE, count |-> 0]
    /\ "no_documents" \in printed
    /\ ExitedWithError

\* C11: the correctness normalization of Interface.py (raw = score or 0,
\* result = raw / 4 if raw > 1 else raw) yields a value in [0.0, 1.0] for
\* every raw score the evaluator reports: absent, 0, a value in [0, 1], and
\* 1, 2, 3, 4, 5 of the 1 to 5 scale.
C11_CorrectnessInRange ==
    (script = "interface" /\ ~correctness_score.none) =>
        (correctness_score.val >= 0 /\ correctness_score.val <= 100)

\* OpenAI-Eval.py has left section 4 and is in sections 5 to 7
PastQuery ==
    /\ script = "openai"
    /\ pc \in {"config", "eval_faith", "eval_rel", "display", "done"}

\* sections 5 to 7 have nothing left to run or are still running
RunsOn == pc = "done" \/ ENABLED OA_Next

\* C12 as stated: every execution of OpenAI-Eval.py that gets past the query
\* step has a non-None response, an evaluator is invoked only after a
\* response was obtained, and from there the script has no exit point and
\* reaches the result display and the final line.
C12_AsStated ==
    /\ PastQuery => (~response.none /\ RunsOn)
    /\ (script = "openai" /\ steps \cap Evaluations # {}) => ~response.none

\* C12, amended: an execution of OpenAI-Eval.py gets past the query step
\* with a response of None only when the query returned None without
\* raising, and then both evaluations are skipped; an evaluator is invoked
\* only after a response object was obtained; past the query step the script
\* has no exit point, whatever the evaluator constructors and the
\* evaluations do, and it ends with the result display and the final line.
C12_NoExitPastQuery ==
    script = "openai" =>
        /\ (PastQuery /\ response.none) =>
              /\ ~QueryStepRaised
              /\ steps \cap Evaluations = {}
              /\ faithfulness_result.none
              /\ relevancy_result.none
        /\ (steps \cap Evaluations # {}) =>
              (~response.none /\ "query" \in steps)
        /\ PastQuery => (RunsOn /\ exit_status = 0)
        /\ (pc = "exited") =>
              /\ NoEvaluation
              /\ "config" \notin raised
              /\ ~faithfulness_evaluator
              /\ ~relevancy_evaluator
        /\ (pc = "done") =>
              /\ "display" \in steps
              /\ "script_finished" \in printed
              /\ exit_status = 0

\* an evaluator constructor raised and an evaluation raised, and the script
\* still printed its final line
C12_Witness ==
    /\ script = "openai"
    /\ pc = "done"
    /\ ~response.none
    /\ "config" \in raised
    /\ "faithfulness" \in raised
    /\ "script_finished" \in printed

----------------------------------------------------------------------------
(* The normalizer applied to every score and feedback of the bounded sets *)

InitNorm ==
    /\ script = "norm"
    /\ pc = "call"
    /\ score \in Scores
    /\ feedback \in Feedbacks
    /\ outcome = NotCalled
    /\ outcome2 = NotCalled
    /\ environ = [api_key |-> NoneText, pdf_file |-> FALSE,
                  data_dir |-> FALSE, button |-> FALSE]
    /\ ProgInit

NormCall ==
    /\ script = "norm"
    /\ pc = "call"
    /\ outcome' = safe_score(score, feedback)
    /\ pc' = "returned"
    /\ UNCHANGED <<script, score, feedback, outcome2, progVars>>

\* normalize(normalize(score, feedback), None)
NormAgain ==
    /\ script = "norm"
    /\ pc = "returned"
    /\ ~outcome.raised
    /\ outcome2' = safe_score(SomeScore(outcome.value), NoneText)
    /\ pc' = "renormalized"
    /\ UNCHANGED <<script, score, feedback, outcome, progVars>>

NextNorm == NormCall \/ NormAgain

SpecNorm == InitNorm /\ [][NextNorm]_vars

----------------------------------------------------------------------------
(* Properties of safe_score, over SpecNorm *)

Called == script = "norm" /\ pc # "call"

HasRatio(fb, ratio) == ~fb.none /\ Contains(ratio, fb.text)

\* C1: for every score that is present and strictly greater than 0, and every
\* feedback, safe_score returns exactly the score: the feedback is not
\* consulted and the value is not clamped.
C1_PositiveScoreReturned ==
    (Called /\ ~score.none /\ score.val > 0) => outcome = Return(score.val)

\* a score above 1.0 with a feedback holding "1/2" came back unchanged
C1_Witness ==
    /\ Called
    /\ score = SomeScore(150)
    /\ HasRatio(feedback, Ratio12)
    /\ outcome = Return(150)

\* C2: when the score is absent or not strictly positive the feedback alone
\* decides: 1.0 if it contains "2/2", otherwise 0.5 if it contains "1/2",
\* otherwise 0.0 (with "0/2", with no ratio, empty or absent).
C2_FeedbackDecides ==
    (Called /\ (score.none \/ score.val <= 0)) =>
        outcome = Return(IF HasRatio(feedback, Ratio22) THEN 100
                         ELSE IF HasRatio(feedback, Ratio12) THEN 50
                         ELSE 0)

\* a feedback holding both "2/2" and "1/2" gave 1.0
C2_Witness ==
    /\ Called
    /\ score = SomeScore(0)
    /\ HasRatio(feedback, Ratio22)
    /\ HasRatio(feedback, Ratio12)
    /\ outcome = Return(100)

\* C3: a present score that is 0.0 or negative is treated as an absent one:
\* safe_score(s, f) = safe_score(None, f) for every s <= 0, so a reported 0.0
\* is overridden to 1.0 or 0.5 when the feedback contains "2/2" or "1/2".
C3_ZeroScoreIsAbsent ==
    (Called /\ ~score.none /\ score.val <= 0) =>
        /\ outcome = safe_score(NoneScore, feedback)
        /\ HasRatio(feedback, Ratio22) => outcome.value = 100
        /\ (HasRatio(feedback, Ratio12) /\ ~HasRatio(feedback, Ratio22))
               => outcome.value = 50

\* a reported 0.0 was overridden to 0.5
C3_Witness ==
    /\ Called
    /\ score = SomeScore(0)
    /\ HasRatio(feedback, Ratio12)
    /\ outcome = Return(50)

WellFormed(s) == s.none \/ (s.val >= 0 /\ s.val <= 100)

InUnitRange(v) == v >= 0 /\ v <= 100

\* C4: for a score that is absent or within [0.0, 1.0] the result lies in
\* [0.0, 1.0]; a result outside [0.0, 1.0] comes only from an input score
\* above 1.0.
C4_ResultInRange ==
    Called =>
        /\ WellFormed(score) => (~outcome.raised /\ InUnitRange(outcome.value))
        /\ ~InUnitRange(outcome.value) => (~score.none /\ score.val > 100)

\* a result above 1.0, from a score above 1.0
C4_Witness ==
    /\ Called
    /\ score = SomeScore(150)
    /\ outcome = Return(150)
    /\ ~InUnitRange(outcome.value)

\* C5: safe_score never fails: for every score and feedback it returns a
\* number and raises nothing; a feedback with no ratio in it gives the
\* default 0.0 when the score is not positive.
C5_NeverRaises ==
    Called =>
        /\ ~outcome.raised
        /\ outcome.value \in Int
        /\ ( /\ ~ScorePositive(score)
             /\ ~HasRatio(feedback, Ratio22)
             /\ ~HasRatio(feedback, Ratio12) ) => outcome = Return(0)

\* absent score, absent feedback: 0.0 came back
C5_Witness ==
    /\ Called
    /\ score = NoneScore
    /\ feedback = NoneText
    /\ outcome = Return(0)

\* C6: idempotence: when r = safe_score(score, feedback) is positive,
\* safe_score(r, None) = r.
C6_Idempotent ==
    (script = "norm" /\ pc = "renormalized" /\ outcome.value > 0) =>
        outcome2 = outcome

\* a 0.5 read from the feedback was normalized again and stayed 0.5
C6_Witness ==
    /\ script = "norm"
    /\ pc = "renormalized"
    /\ score = NoneScore
    /\ outcome = Return(50)
    /\ outcome2 = Return(50)

====
